---- MODULE Spec2Model ----
(***************************************************************************)
(* Model of the screenshot diff scripts                                    *)
(*   .github/diff_report/diff_screenshots.py   (the "styled" variant)      *)
(*   .github/diff_screenshots.py               (the "minimal" variant)     *)
(*                                                                         *)
(* A path string is a sequence of tokens; the token "/" is os.path.sep and *)
(* every other token is a run of non-separator characters.  A file content *)
(* is an abstract byte string ("X", "Y").  A run of the script is the      *)
(* sequence of its module-level statements, one action per loop iteration. *)
(***************************************************************************)
EXTENDS Integers, Sequences, FiniteSets, TLC

VARIABLES
    variant,            \* which of the two scripts runs
    before_fs,          \* png files below before_dir, in glob order
    after_fs,           \* png files below after_dir, in glob order
    pc,                 \* position of the script
    run,                \* "first" run on a fresh output directory, or the "second"
    err,                \* exception that ended the run ("none" when none)
    iB, iA,             \* next file of the before / after scan loop
    frag_call,          \* last call of get_pathname_fragment: argument and outcome
    before_screenshots, \* dict key -> digest
    paths_before,       \* list of keys
    paths_after,        \* list of keys
    only_in_after,      \* list of keys
    diffs,              \* list of keys
    only_in_before,     \* set of keys
    todoB,              \* keys of only_in_before the first copy loop has not visited
    jA, jD,             \* next entry of the second / third copy loop
    html,               \* html_content / html_output accumulated so far
    outDirs,            \* directories existing below output_dir
    outFiles,           \* copied files below output_dir: set of <<path, data>>
    outHtml,            \* the report file: [written, content]
    outCss,             \* pico.min.css present in output_dir
    snap                \* output state at the end of the previous run

vars == <<variant, before_fs, after_fs, pc, run, err, iB, iA, frag_call,
          before_screenshots, paths_before, paths_after, only_in_after, diffs,
          only_in_before, todoB, jA, jD, html, outDirs, outFiles, outHtml,
          outCss, snap>>

----------------------------------------------------------------------------
(* Bounds and inputs *)

\* total number of png files in the two input trees
MaxFiles == 3

\* number of trailing path parts that make a key
KeyParts == 3

Sep == "/"

Variants == {"styled", "minimal"}

Contents == {"X", "Y"}

\* the three positional arguments
before_dir == <<"b">>
after_dir == <<"a">>
output_dir == <<"o">>

\* relative paths of png files below a root: depth 0, 1, 2 (twice) and 3
RelPaths ==
    { <<"F.png">>,
      <<"en", Sep, "F.png">>,
      <<"en", Sep, "tv", Sep, "F.png">>,
      <<"en", Sep, "tv", Sep, "G.png">>,
      <<"x", Sep, "en", Sep, "tv", Sep, "F.png">> }

FileRecs == [rel : RelPaths, data : Contents]

\* listings of n files with distinct paths, in any order
ListingsOf(n) ==
    { l \in [1..n -> FileRecs] :
        \A i, j \in 1..n : i # j => l[i].rel # l[j].rel }

Listings == UNION { ListingsOf(n) : n \in 0..MaxFiles }

----------------------------------------------------------------------------
(* String and path helpers *)

Range(s) == { s[i] : i \in 1..Len(s) }

HasSep(p) == \E i \in 1..Len(p) : p[i] = Sep

FirstSep(p) == CHOOSE i \in 1..Len(p) : p[i] = Sep /\ \A j \in 1..(i-1) : p[j] # Sep

LastSep(p) == CHOOSE i \in 1..Len(p) : p[i] = Sep /\ \A j \in (i+1)..Len(p) : p[j] # Sep

\* str.split(os.path.sep)
RECURSIVE Split(_)
Split(p) ==
    IF ~HasSep(p) THEN <<p>>
    ELSE LET n == FirstSep(p)
         IN  <<SubSeq(p, 1, n - 1)>> \o Split(SubSeq(p, n + 1, Len(p)))

\* os.path.sep.join(parts)
RECURSIVE Join(_)
Join(parts) ==
    IF Len(parts) = 0 THEN <<>>
    ELSE IF Len(parts) = 1 THEN parts[1]
    ELSE parts[1] \o <<Sep>> \o Join(Tail(parts))

\* parts[-n:]
LastParts(parts, n) ==
    IF Len(parts) <= n THEN parts ELSE SubSeq(parts, Len(parts) - n + 1, Len(parts))

\* os.path.join(a, b)
PathJoin(a, b) ==
    IF Len(b) > 0 /\ b[1] = Sep THEN b
    ELSE IF Len(a) = 0 \/ a[Len(a)] = Sep THEN a \o b
    ELSE a \o <<Sep>> \o b

\* os.path.dirname(p), for paths without a trailing run of separators
Dirname(p) ==
    IF ~HasSep(p) THEN <<>>
    ELSE IF LastSep(p) = 1 THEN <<Sep>>
    ELSE SubSeq(p, 1, LastSep(p) - 1)

\* the directories os.makedirs(p, exist_ok=True) leaves in existence
MakeDirs(p) ==
    LET parts == Split(p)
    IN  { Join(SubSeq(parts, 1, n)) : n \in 1..Len(parts) } \ { <<>> }

\* glob.glob(path + "/**/*.png", recursive=True): full paths, in listing order
list_files_recursively(root, fs) ==
    [ i \in 1..Len(fs) |-> root \o <<Sep>> \o fs[i].rel ]

\* hashlib sha256 hexdigest of the content, taken as collision free
compute_file_hash(data) == <<"sha256", data>>

\* get_pathname_fragment of the styled script: raises below three parts
FragmentStyled(path) ==
    LET parts == Split(path)
    IN  IF Len(parts) < KeyParts
        THEN [ok |-> FALSE, val |-> <<>>]
        ELSE [ok |-> TRUE, val |-> Join(LastParts(parts, KeyParts))]

\* get_pathname_fragment of the minimal script: never raises
FragmentMinimal(path) ==
    [ok |-> TRUE, val |-> Join(LastParts(Split(path), KeyParts))]

get_pathname_fragment(v, path) ==
    IF v = "styled" THEN FragmentStyled(path) ELSE FragmentMinimal(path)

----------------------------------------------------------------------------
(* The diff and the renderer's building blocks *)

\* before_screenshots[key] = digest
DictSet(map, key, digest) ==
    [ k \in (DOMAIN map) \cup {key} |-> IF k = key THEN digest ELSE map[k] ]

\* the if / elif of the after-scan loop
AfterBucket(key, map, digest) ==
    IF key \notin DOMAIN map THEN "only_in_after"
    ELSE IF map[key] # digest THEN "diff"
    ELSE "same"

OnlyInBeforeNoSubtract(pb, pa) == Range(pb)

OnlyInBeforeSwapped(pb, pa) == Range(pa) \ Range(pb)

\* set(paths_before) - set(paths_after)
OnlyInBeforeOf(pb, pa) == Range(pb) \ Range(pa)

\* not only_in_after and not only_in_before and not diffs
NoDifferences(oa, ob, d) == oa = <<>> /\ ob = {} /\ d = <<>>

output_dir_before == PathJoin(output_dir, <<"before">>)
output_dir_after == PathJoin(output_dir, <<"after">>)

\* the file of a listing that lives at full path src, if any
FilesAt(root, fs, src) ==
    { i \in 1..Len(fs) : root \o <<Sep>> \o fs[i].rel = src }

SourceExists(root, fs, src) == FilesAt(root, fs, src) # {}

SourceData(root, fs, src) == fs[CHOOSE i \in FilesAt(root, fs, src) : TRUE].data

PutLost(files, dst, data) == files

\* shutil.copy(src, dst): dst is created or overwritten with the bytes of src
Put(files, dst, data) ==
    { f \in files : f[1] # dst } \cup { <<dst, data>> }

\* the copy statements: active in the styled script, commented out in the minimal one
CopyInto(v, files, dst, data) ==
    IF v = "styled" THEN Put(files, dst, data) ELSE files

\* whether the copy statement raises FileNotFoundError
CopyRaises(v, root, fs, src) == v = "styled" /\ ~SourceExists(root, fs, src)

\* addresses a str object can have in a run of the interpreter
Addrs == {"0x7f01", "0x7f02"}

\* the text "{screenshot_path.split(os.path.sep)[1].upper}" can format to: the
\* method is not called, so the styled script prints the repr of the bound
\* method, "<built-in method upper of str object at ADDR>"; the minimal script
\* has no such heading
Headings(v) == IF v = "styled" THEN Addrs ELSE {"none"}

\* one appended "<p>...</p>" (or the no-differences element): its heading, its
\* label (kind and key stand for the text built from the key) and img src list
Fragment(kind, head, key, imgs) ==
    [kind |-> kind, head |-> head, key |-> key, imgs |-> imgs]

FragRemoved(head, key) ==
    Fragment("REMOVED", head, key, << PathJoin(<<"before">>, key) >>)

FragAdded(head, key) ==
    Fragment("ADDED", head, key, << PathJoin(<<"after">>, key) >>)

FragChanged(head, key) ==
    Fragment("CHANGED", head, key,
             << PathJoin(<<"before">>, key), PathJoin(<<"after">>, key) >>)

FragNoDiff == Fragment("NODIFF", "none", <<>>, <<>>)

\* open(path, "w") followed by f.write(content)
WriteFile(old, content) == [written |-> TRUE, content |-> content]

----------------------------------------------------------------------------
(* State machine *)

NoCall == [made |-> FALSE, path |-> <<>>, ok |-> TRUE, val |-> <<>>]

NoSnap == [taken |-> FALSE, dirs |-> {}, files |-> {}, html |-> <<>>, css |-> FALSE]

Init ==
    /\ variant \in Variants
    /\ before_fs \in Listings
    /\ after_fs \in Listings
    /\ Len(before_fs) + Len(after_fs) <= MaxFiles
    /\ pc = "scan_before"
    /\ run = "first"
    /\ err = "none"
    /\ iB = 1
    /\ iA = 1
    /\ frag_call = NoCall
    /\ before_screenshots = <<>>
    /\ paths_before = <<>>
    /\ paths_after = <<>>
    /\ only_in_after = <<>>
    /\ diffs = <<>>
    /\ only_in_before = {}
    /\ todoB = {}
    /\ jA = 1
    /\ jD = 1
    /\ html = <<>>
    /\ outDirs = {}
    /\ outFiles = {}
    /\ outHtml = [written |-> FALSE, content |-> <<>>]
    /\ outCss = FALSE
    /\ snap = NoSnap

inputs == <<variant, before_fs, after_fs>>
output == <<outDirs, outFiles, outHtml, outCss>>
scanB == <<before_screenshots, paths_before>>
scanA == <<paths_after, only_in_after, diffs>>

Raise(e) == pc' = "aborted" /\ err' = e

\* one iteration of "for file in list_files_recursively(args.before_dir)"
ScanBefore ==
    /\ pc = "scan_before"
    /\ iB <= Len(before_fs)
    /\ LET file == list_files_recursively(before_dir, before_fs)[iB]
           r == get_pathname_fragment(variant, file)
       IN  /\ frag_call' = [made |-> TRUE, path |-> file, ok |-> r.ok, val |-> r.val]
           /\ IF r.ok
              THEN /\ before_screenshots' =
                        DictSet(before_screenshots, r.val, compute_file_hash(before_fs[iB].data))
                   /\ paths_before' = Append(paths_before, r.val)
                   /\ iB' = iB + 1
                   /\ UNCHANGED <<pc, err>>
              ELSE /\ Raise("path_shape")
                   /\ UNCHANGED <<before_screenshots, paths_before, iB>>
    /\ UNCHANGED <<inputs, output, run, iA, scanA, only_in_before, todoB, jA, jD, html, snap>>

\* the before loop is exhausted: the after-scan accumulators are created
StartAfter ==
    /\ pc = "scan_before"
    /\ iB > Len(before_fs)
    /\ pc' = "scan_after"
    /\ only_in_after' = <<>>
    /\ diffs' = <<>>
    /\ paths_after' = <<>>
    /\ UNCHANGED <<inputs, output, run, err, iB, iA, frag_call, scanB, only_in_before,
                   todoB, jA, jD, html, snap>>

\* one iteration of "for file in list_files_recursively(args.after_dir)"
ScanAfter ==
    /\ pc = "scan_after"
    /\ iA <= Len(after_fs)
    /\ LET file == list_files_recursively(after_dir, after_fs)[iA]
           r == get_pathname_fragment(variant, file)
           b == AfterBucket(r.val, before_screenshots, compute_file_hash(after_fs[iA].data))
       IN  /\ frag_call' = [made |-> TRUE, path |-> file, ok |-> r.ok, val |-> r.val]
           /\ IF r.ok
              THEN /\ only_in_after' =
                        IF b = "only_in_after" THEN Append(only_in_after, r.val)
                        ELSE only_in_after
                   /\ diffs' = IF b = "diff" THEN Append(diffs, r.val) ELSE diffs
                   /\ paths_after' = Append(paths_after, r.val)
                   /\ iA' = iA + 1
                   /\ UNCHANGED <<pc, err>>
              ELSE /\ Raise("path_shape")
                   /\ UNCHANGED <<scanA, iA>>
    /\ UNCHANGED <<inputs, output, run, iB, scanB, only_in_before, todoB, jA, jD, html, snap>>

\* the after loop is exhausted: only_in_before, the empty report, the two output subtrees
Prepare ==
    /\ pc = "scan_after"
    /\ iA > Len(after_fs)
    /\ only_in_before' = OnlyInBeforeOf(paths_before, paths_after)
    /\ todoB' = only_in_before'
    /\ html' = <<>>
    /\ outDirs' = outDirs \cup MakeDirs(output_dir_before) \cup MakeDirs(output_dir_after)
    /\ pc' = "copy_before"
    /\ UNCHANGED <<inputs, run, err, iB, iA, frag_call, scanB, scanA, jA, jD,
                   outFiles, outHtml, outCss, snap>>

\* one iteration of "for screenshot_path in only_in_before" (set order is unspecified)
CopyBefore ==
    /\ pc = "copy_before"
    /\ \E key \in todoB :
         LET src == PathJoin(before_dir, key)
             dst == PathJoin(output_dir_before, key)
         IN  /\ outDirs' = outDirs \cup MakeDirs(PathJoin(output_dir_before, Dirname(key)))
             /\ IF CopyRaises(variant, before_dir, before_fs, src)
                THEN /\ Raise("copy")
                     /\ UNCHANGED <<outFiles, html, todoB>>
                ELSE /\ outFiles' =
                          IF SourceExists(before_dir, before_fs, src)
                          THEN CopyInto(variant, outFiles, dst,
                                        SourceData(before_dir, before_fs, src))
                          ELSE outFiles
                     /\ \E head \in Headings(variant) :
                            html' = Append(html, FragRemoved(head, key))
                     /\ todoB' = todoB \ {key}
                     /\ UNCHANGED <<pc, err>>
    /\ UNCHANGED <<inputs, run, iB, iA, frag_call, scanB, scanA, only_in_before, jA, jD,
                   outHtml, outCss, snap>>

StartCopyAfter ==
    /\ pc = "copy_before"
    /\ todoB = {}
    /\ pc' = "copy_after"
    /\ jA' = 1
    /\ UNCHANGED <<inputs, output, run, err, iB, iA, frag_call, scanB, scanA,
                   only_in_before, todoB, jD, html, snap>>

\* one iteration of "for screenshot_path in only_in_after"
CopyAfter ==
    /\ pc = "copy_after"
    /\ jA <= Len(only_in_after)
    /\ LET key == only_in_after[jA]
           src == PathJoin(after_dir, key)
           dst == PathJoin(output_dir_after, key)
       IN  /\ outDirs' = outDirs \cup MakeDirs(PathJoin(output_dir_after, Dirname(key)))
           /\ IF CopyRaises(variant, after_dir, after_fs, src)
              THEN /\ Raise("copy")
                   /\ UNCHANGED <<outFiles, html, jA>>
              ELSE /\ outFiles' =
                        IF SourceExists(after_dir, after_fs, src)
                        THEN CopyInto(variant, outFiles, dst,
                                      SourceData(after_dir, after_fs, src))
                        ELSE outFiles
                   /\ \E head \in Headings(variant) :
                          html' = Append(html, FragAdded(head, key))
                   /\ jA' = jA + 1
                   /\ UNCHANGED <<pc, err>>
    /\ UNCHANGED <<inputs, run, iB, iA, frag_call, scanB, scanA, only_in_before, todoB, jD,
                   outHtml, outCss, snap>>

StartCopyDiffs ==
    /\ pc = "copy_after"
    /\ jA > Len(only_in_after)
    /\ pc' = "copy_diffs"
    /\ jD' = 1
    /\ UNCHANGED <<inputs, output, run, err, iB, iA, frag_call, scanB, scanA,
                   only_in_before, todoB, jA, html, snap>>

\* one iteration of "for screenshot_path in diffs": the before copy, then the after copy
CopyDiffs ==
    /\ pc = "copy_diffs"
    /\ jD <= Len(diffs)
    /\ LET key == diffs[jD]
           srcB == PathJoin(before_dir, key)
           srcA == PathJoin(after_dir, key)
           dstB == PathJoin(output_dir_before, key)
           dstA == PathJoin(output_dir_after, key)
           afterB == IF SourceExists(before_dir, before_fs, srcB)
                     THEN CopyInto(variant, outFiles, dstB,
                                   SourceData(before_dir, before_fs, srcB))
                     ELSE outFiles
           afterA == IF SourceExists(after_dir, after_fs, srcA)
                     THEN CopyInto(variant, afterB, dstA,
                                   SourceData(after_dir, after_fs, srcA))
                     ELSE afterB
       IN  /\ outDirs' = outDirs \cup MakeDirs(PathJoin(output_dir_before, Dirname(key)))
                                 \cup MakeDirs(PathJoin(output_dir_after, Dirname(key)))
           /\ IF CopyRaises(variant, before_dir, before_fs, srcB)
              THEN /\ Raise("copy")
                   /\ UNCHANGED <<outFiles, html, jD>>
              ELSE IF CopyRaises(variant, after_dir, after_fs, srcA)
              THEN /\ Raise("copy")
                   /\ outFiles' = afterB
                   /\ UNCHANGED <<html, jD>>
              ELSE /\ outFiles' = afterA
                   /\ \E head \in Headings(variant) :
                          html' = Append(html, FragChanged(head, key))
                   /\ jD' = jD + 1
                   /\ UNCHANGED <<pc, err>>
    /\ UNCHANGED <<inputs, run, iB, iA, frag_call, scanB, scanA, only_in_before, todoB, jA,
                   outHtml, outCss, snap>>

\* the no-differences test, the report file and (styled script) the stylesheet
WriteReport ==
    /\ pc = "copy_diffs"
    /\ jD > Len(diffs)
    /\ html' = IF NoDifferences(only_in_after, only_in_before, diffs)
               THEN Append(html, FragNoDiff) ELSE html
    /\ outHtml' = WriteFile(outHtml, html')
    /\ outCss' = (outCss \/ variant = "styled")
    /\ pc' = "done"
    /\ UNCHANGED <<inputs, run, err, iB, iA, frag_call, scanB, scanA, only_in_before,
                   todoB, jA, jD, outDirs, outFiles, snap>>

\* the script is started again on the same directories, after an execution that
\* completed or that an exception ended; the output directory is kept
Rerun ==
    /\ pc \in {"done", "aborted"}
    /\ run = "first"
    /\ run' = "second"
    /\ snap' = [taken |-> TRUE, dirs |-> outDirs, files |-> outFiles,
                html |-> outHtml.content, css |-> outCss]
    /\ pc' = "scan_before"
    /\ iB' = 1
    /\ iA' = 1
    /\ frag_call' = NoCall
    /\ before_screenshots' = <<>>
    /\ paths_before' = <<>>
    /\ paths_after' = <<>>
    /\ only_in_after' = <<>>
    /\ diffs' = <<>>
    /\ only_in_before' = {}
    /\ todoB' = {}
    /\ jA' = 1
    /\ jD' = 1
    /\ html' = <<>>
    /\ err' = "none"
    /\ UNCHANGED <<inputs, output>>

Next ==
    \/ ScanBefore
    \/ StartAfter
    \/ ScanAfter
    \/ Prepare
    \/ CopyBefore
    \/ StartCopyAfter
    \/ CopyAfter
    \/ StartCopyDiffs
    \/ CopyDiffs
    \/ WriteReport

\* one execution of the script on a fresh output directory
Spec == Init /\ [][Next]_vars

NextTwice ==
    \/ Next
    \/ Rerun

\* the script executed, then executed again on the same directories
SpecTwice == Init /\ [][NextTwice]_vars

----------------------------------------------------------------------------
(* Vocabulary of the properties *)

\* both scan loops ran to their end
ScansDone == pc \in {"copy_before", "copy_after", "copy_diffs", "done"} \/ err = "copy"

BeforeIdx == 1..Len(before_fs)
AfterIdx == 1..Len(after_fs)

\* the key the running script derives for a file of either tree
KeyB(i) == get_pathname_fragment(variant, list_files_recursively(before_dir, before_fs)[i]).val
KeyA(j) == get_pathname_fragment(variant, list_files_recursively(after_dir, after_fs)[j]).val

\* the keys of a tree, file by file
KeyListB == [ i \in BeforeIdx |-> KeyB(i) ]
KeyListA == [ j \in AfterIdx |-> KeyA(j) ]

KeysBefore == Range(KeyListB)
KeysAfter == Range(KeyListA)

OnlyInBefore == only_in_before
OnlyInAfter == Range(only_in_after)
Changed == Range(diffs)

\* present in both with equal digests: the bucket that is never reported
InUnchanged(k) ==
    /\ k \in DOMAIN before_screenshots
    /\ k \in Range(paths_after)
    /\ \A j \in AfterIdx :
          KeyA(j) = k => compute_file_hash(after_fs[j].data) = before_screenshots[k]

BucketsOf(k) ==
    { b \in {"onlyInBefore", "onlyInAfter", "changed", "unchanged"} :
        \/ b = "onlyInBefore" /\ k \in OnlyInBefore
        \/ b = "onlyInAfter" /\ k \in OnlyInAfter
        \/ b = "changed" /\ k \in Changed
        \/ b = "unchanged" /\ InUnchanged(k) }

\* the files of a tree: relative path and bytes
FilesOf(fs) == { <<fs[i].rel, fs[i].data>> : i \in 1..Len(fs) }

\* the two directories hold the same files with the same bytes
IdenticalDirs == FilesOf(before_fs) = FilesOf(after_fs)

PerFileFragments(content) == { n \in 1..Len(content) : content[n].kind # "NODIFF" }

Count(seq, x) == Cardinality({ n \in 1..Len(seq) : seq[n] = x })

\* equal up to the order of the entries
SameEntries(s, t) ==
    /\ Len(s) = Len(t)
    /\ \A x \in Range(s) \cup Range(t) : Count(s, x) = Count(t, x)

\* bucket after bucket the same: REMOVED entries, then ADDED, then CHANGED
SameReport(s, t) ==
    /\ SameEntries(s, t)
    /\ \A n \in 1..Len(s) : s[n].kind = t[n].kind

CopiedPaths == { f[1] : f \in outFiles }

----------------------------------------------------------------------------
(* Properties *)

\* C1: once both scans are complete, every key of the before map or of the
\* after key list lies in exactly one of onlyInBefore, onlyInAfter, changed,
\* unchanged, also when several files reduce to one key.
C1_ExactlyOneBucket ==
    ScansDone =>
        \A k \in (DOMAIN before_screenshots) \cup Range(paths_after) :
            Cardinality(BucketsOf(k)) = 1

C1_Witness ==
    /\ pc = "done"
    /\ \E i, j \in AfterIdx : i # j /\ KeyA(i) = KeyA(j)
    /\ Changed # {}

\* C2: a key found only below before_dir is in onlyInBefore and in no other
\* reported bucket; a key found only below after_dir is in onlyInAfter and in
\* no other reported bucket.
C2_OneSidedKeys ==
    ScansDone =>
        LET kb == KeysBefore
            ka == KeysAfter
        IN  /\ \A k \in kb \ ka :
                  k \in OnlyInBefore /\ k \notin OnlyInAfter /\ k \notin Changed
            /\ \A k \in ka \ kb :
                  k \in OnlyInAfter /\ k \notin OnlyInBefore /\ k \notin Changed

C2_Witness ==
    /\ pc = "done"
    /\ KeysBefore \ KeysAfter # {}
    /\ KeysAfter \ KeysBefore # {}

\* C3: for every file present below both roots at a key K, differing before
\* and after bytes put K in changed, and identical bytes keep K out of
\* onlyInBefore, onlyInAfter and changed.
C3_BothSidedFiles ==
    ScansDone =>
        \A i \in BeforeIdx : \A j \in AfterIdx :
            (before_fs[i].rel = after_fs[j].rel /\ KeyB(i) = KeyA(j)) =>
                LET k == KeyB(i)
                IN  /\ before_fs[i].data # after_fs[j].data => k \in Changed
                    /\ before_fs[i].data = after_fs[j].data =>
                          k \notin OnlyInBefore /\ k \notin OnlyInAfter /\ k \notin Changed

\* C4: two directories with the same files and the same bytes give three
\* empty buckets and a report made of the single no-differences fragment; the
\* no-differences fragment is written only when the three buckets are empty.
C4_NoDifferences ==
    /\ (ScansDone /\ IdenticalDirs) =>
          OnlyInBefore = {} /\ OnlyInAfter = {} /\ Changed = {}
    /\ pc = "done" =>
          /\ IdenticalDirs => outHtml.content = <<FragNoDiff>>
          /\ (\E n \in 1..Len(outHtml.content) : outHtml.content[n] = FragNoDiff) =>
                OnlyInBefore = {} /\ OnlyInAfter = {} /\ Changed = {}

\* C5: get_pathname_fragment returns the last three parts joined by the
\* separator for a path of three parts or more, and raises for a path of
\* fewer than three parts.
C5_FragmentContract ==
    frag_call.made =>
        LET parts == Split(frag_call.path)
        IN  /\ Len(parts) >= KeyParts =>
                  /\ frag_call.ok
                  /\ frag_call.val =
                        Join(SubSeq(parts, Len(parts) - KeyParts + 1, Len(parts)))
            /\ Len(parts) < KeyParts => ~frag_call.ok

\* C6: after a run that completes normally on a fresh output directory, every
\* file whose key is in onlyInBefore or changed is found with its bytes at
\* <output>/before/<key>, and every file whose key is in onlyInAfter or
\* changed at <output>/after/<key>, whatever the depth of the file.
C6_AllCopied ==
    (pc = "done" /\ run = "first") =>
        /\ \A i \in BeforeIdx :
              KeyB(i) \in OnlyInBefore \cup Changed =>
                  <<PathJoin(output_dir_before, KeyB(i)), before_fs[i].data>> \in outFiles
        /\ \A j \in AfterIdx :
              KeyA(j) \in OnlyInAfter \cup Changed =>
                  <<PathJoin(output_dir_after, KeyA(j)), after_fs[j].data>> \in outFiles

\* C7: a second run on the same inputs ends with the output of the first
\* run: the same directories and copied files with the same bytes, and the
\* same report up to the order of the entries of one bucket.
C7_Idempotent ==
    (pc = "done" /\ run = "second") =>
        /\ snap.taken
        /\ outFiles = snap.files
        /\ outDirs = snap.dirs
        /\ outCss = snap.css
        /\ SameReport(outHtml.content, snap.html)

\* C8: a scanned file whose path has fewer than three parts ends the run with
\* a path-shape error at that file: nothing is created below the output
\* directory and no report is written.
C8_PathShapeAborts ==
    (frag_call.made /\ Len(Split(frag_call.path)) < KeyParts) =>
        /\ pc = "aborted"
        /\ err = "path_shape"
        /\ outDirs = {}
        /\ outFiles = {}
        /\ ~outHtml.written

\* C9: the written report holds one per-file fragment for each distinct key
\* of onlyInBefore, onlyInAfter and changed, and no key has two fragments.
C9_OneFragmentPerKey ==
    pc = "done" =>
        Cardinality(PerFileFragments(outHtml.content)) =
            Cardinality(OnlyInBefore \cup OnlyInAfter \cup Changed)

\* C10: in the styled script, whenever the report file exists every image it
\* references exists below the output directory, and a run ended by a failed
\* copy leaves no report file.
C10_ImagesExist ==
    variant = "styled" =>
        /\ outHtml.written =>
              \A n \in 1..Len(outHtml.content) :
                  \A m \in 1..Len(outHtml.content[n].imgs) :
                      PathJoin(output_dir, outHtml.content[n].imgs[m]) \in CopiedPaths
        /\ err = "copy" => ~outHtml.written

C10_Witness ==
    /\ variant = "styled"
    /\ outHtml.written
    /\ \E n \in 1..Len(outHtml.content) : outHtml.content[n].kind = "CHANGED"

====
